---------------------------- MODULE Spec2Model ----------------------------
(***************************************************************************)
(* Symbol indexer of yavide: src/core/services/indexer/clang_indexer.py.   *)
(*                                                                         *)
(* Spec      : one ClangIndexer serving the requests of its dispatcher on  *)
(*             one project root, with the worker processes it launches.    *)
(* SpecStore : one SymbolDatabase driven by a client, a second store that  *)
(*             single-file indexing fills, and the merge loop of           *)
(*             __run_on_directory applied between the two.                 *)
(***************************************************************************)
EXTENDS Integers, Sequences, FiniteSets, TLC

\* most files os.walk finds under the project root
MaxFiles == 3
\* most processing units multiprocessing.cpu_count() reports
MaxCpu == 2
\* most requests one behaviour sends to the indexer
MaxRequests == 2
\* most calls the client of the store makes
MaxCalls == 5

VARIABLES
    cpu_count,            \* ClangIndexer.cpu_count
    proj_root_directory,  \* ClangIndexer.proj_root_directory
    tree_files,           \* the source files under the project root, in os.walk order
    fs,                   \* the database files under the project root: path -> content
    fds,                  \* the descriptors mkstemp returned that are still open
    db,                   \* ClangIndexer.db: the connection and what it sees
    pc,                   \* where __run_on_directory stands
    chunks,               \* the chunks slice_it yielded that are not handed out yet
    process_list,         \* the worker processes of the pass
    tmp_db_list,          \* their temp stores, in launch order
    idx,                  \* position of the wait loop, then of the merge loop
    raised,               \* the exception the last request ended with, or "none"
    callbacks,            \* the opcodes the callback was invoked with for the last request
    requests,             \* how many requests were sent
    request,              \* the last request: its opcode and what it came with
    payload,              \* what the callback of the last request was handed
    sdb,                  \* a SymbolDatabase: its connection and what it sees
    wdb,                  \* a worker store that index_file_list fills
    result,               \* the last call on sdb and how it ended
    calls                 \* how many calls the client made

vars == <<cpu_count, proj_root_directory, tree_files, fs, fds, db, pc, chunks,
          process_list, tmp_db_list, idx, raised, callbacks, requests,
          request, payload, sdb, wdb, result, calls>>

indexerVars == <<cpu_count, proj_root_directory, tree_files, fs, fds, db, pc,
                 chunks, process_list, tmp_db_list, idx, raised, callbacks,
                 requests, request, payload>>

storeVars == <<sdb, wdb, result, calls>>

-----------------------------------------------------------------------------
(* Values *)

\* padvalue of slice_it, also Python's None elsewhere
None == 0

Root == "root"

\* proj_root_directory before the first index-directory request
NoRoot == "None"

\* opcode 0x1 of ClangIndexer.op
IndexDirectory == 1

\* ClangIndexer.op: the handler of every opcode, 0x10 and 0x11 in decimal
self_op ==
    (0 :> "__run_on_single_file") @@ (1 :> "__run_on_directory")
        @@ (2 :> "__drop_single_file") @@ (3 :> "__drop_all")
        @@ (16 :> "__go_to_definition") @@ (17 :> "__find_all_references")

\* the opcodes a client sends: the six of the table and one that is not in it
Opcodes == DOMAIN self_op \cup {4}

\* an unknown opcode handled as drop-all
DefaultsToDropAllMutant(id) == IF id \in DOMAIN self_op THEN self_op[id] ELSE "__drop_all"

\* self.op.get(int(args[0]), self.__unknown_op)
Dispatch(id) == IF id \in DOMAIN self_op THEN self_op[id] ELSE "__unknown_op"

\* no path: the connection of an indexer that served no request yet
NoPath == <<>>

\* the file an #include brings into every translation unit
Header == MaxFiles + 1

NoTree == <<>>

\* ast_node.referenced of a node that refers to no declaration
NoCursor == "None"

symbol_types == <<
    <<1, "function">>, <<2, "variable">>, <<3, "user_defined_type">>, <<4, "macro">> >>

\* a database file nobody wrote to yet
EmptyDb == [symbol_type_table |-> FALSE, symbol_table |-> FALSE,
            symbol_type |-> <<>>, symbol |-> <<>>]

Range(s) == {s[i] : i \in DOMAIN s}

-----------------------------------------------------------------------------
(* The symbol relation: PRIMARY KEY(filename, usr, line, column) *)

PrimaryKey(row) == <<row[1], row[2], row[3], row[4]>>

\* the insert on a relation declared without its PRIMARY KEY
InsertAnywayMutant(rows, row) == [rows |-> Append(rows, row), err |-> "none"]

\* INSERT INTO symbol VALUES (?, ?, ?, ?, ?) on a relation that holds rows
Insert(rows, row) ==
    IF \E i \in DOMAIN rows : PrimaryKey(rows[i]) = PrimaryKey(row)
    THEN [rows |-> rows, err |-> "IntegrityError"]
    ELSE [rows |-> Append(rows, row), err |-> "none"]

\* DELETE FROM symbol WHERE filename=?
DeleteWhere(rows, filename) == SelectSeq(rows, LAMBDA r : r[1] # filename)

\* INSERT INTO symbol_type VALUES (?, ?) for the four types, PRIMARY KEY(id)
InsertTypes(types) ==
    IF \E i \in DOMAIN types : \E j \in DOMAIN symbol_types : types[i][1] = symbol_types[j][1]
    THEN [rows |-> types, err |-> "IntegrityError"]
    ELSE [rows |-> types \o symbol_types, err |-> "none"]


-----------------------------------------------------------------------------
(* What the parser hands to index_single_file *)

Node(file, kind, usr, referenced, line, column, depth) ==
    [file |-> file, kind |-> kind, usr |-> usr, referenced |-> referenced,
     line |-> line, column |-> column, depth |-> depth]

\* The translation unit of file f, its nodes in depth-first order with their
\* depth: a function, a reference to it at the same position, a local variable
\* of the function, an included struct with a field, a statement.
Tree(f) == <<
    Node(f, "Function", "c:@F@f", NoCursor, 1, 1, 1),
    Node(f, "Function", "", "c:@F@f", 1, 1, 2),
    Node(f, "LocalVariable", "c:@v", NoCursor, 2, 1, 2),
    Node(Header, "Struct", "c:@S@s", NoCursor, 1, 1, 1),
    Node(f, "Field", "c:@S@s@FI@m", NoCursor, 3, 1, 2),
    Node(f, "Statement", "", NoCursor, 4, 1, 1) >>

\* The translation unit of file f after an edit: the function has moved to
\* line 5, the local variable is gone, a macro and a class are new.
EditedTree(f) == <<
    Node(f, "Function", "c:@F@f", NoCursor, 5, 1, 1),
    Node(f, "MacroDefinition", "c:@macro@M", NoCursor, 1, 1, 1),
    Node(Header, "Struct", "c:@S@s", NoCursor, 1, 1, 1),
    Node(f, "Class", "c:@S@C", NoCursor, 6, 1, 1) >>

\* parser.parse(contents_filename, original_filename, ...): a tree or nothing
ParseResults(f) == {NoTree, Tree(f)}

\* what the parser returns for a file that is open in the editor
ParseResultsInEditor(f) == ParseResults(f) \cup {EditedTree(f)}

\* parser.get_cursor(tunit, line, column): the node at a position, None (0) where
\* there is none
Cursors(tunit) == 0..Len(tunit)

\* the categories numbered in the order of the branches of the visitor
BranchOrderMutant(kind) ==
    IF kind \in {"Function", "Method"} THEN 1
    ELSE IF kind \in {"Class", "Struct", "Enum", "EnumValue", "Union", "Typedef"} THEN 2
    ELSE IF kind \in {"LocalVariable", "FunctionParameter", "Field"} THEN 3
    ELSE IF kind \in {"MacroDefinition", "MacroInstantiation"} THEN 4
    ELSE None

\* the category the four branches of the visitor give a node kind, None for the rest
SymbolTypeOf(kind) ==
    IF kind \in {"Function", "Method"} THEN 1
    ELSE IF kind \in {"Class", "Struct", "Enum", "EnumValue", "Union", "Typedef"} THEN 3
    ELSE IF kind \in {"LocalVariable", "FunctionParameter", "Field"} THEN 2
    ELSE IF kind \in {"MacroDefinition", "MacroInstantiation"} THEN 4
    ELSE None

\* the row the visitor inserts for an in-scope node of a classified kind
RowOf(ast_node, spelling) ==
    <<spelling,
      IF ast_node.referenced # NoCursor THEN ast_node.referenced ELSE ast_node.usr,
      ast_node.line, ast_node.column, SymbolTypeOf(ast_node.kind)>>

\* the visitor without the test of the file of the node
EveryFileMutant(ast_node, spelling, rows) ==
    [rows |-> IF SymbolTypeOf(ast_node.kind) # None
              THEN Insert(rows, RowOf(ast_node, spelling)).rows
              ELSE rows,
     visit |-> "RECURSE"]

\* visitor(ast_node, ...): the rows after the node and what the traversal does next
visitor(ast_node, spelling, rows) ==
    IF ast_node.file # None /\ ast_node.file = spelling
    THEN [rows |-> IF SymbolTypeOf(ast_node.kind) # None
                   THEN Insert(rows, RowOf(ast_node, spelling)).rows
                   ELSE rows,
          visit |-> "RECURSE"]
    ELSE [rows |-> rows, visit |-> "CONTINUE"]

\* parser.traverse(tunit.cursor, parser, visitor) from node i on; a node at a
\* depth beyond skip lies below a node the visitor answered CONTINUE for
RECURSIVE traverse(_, _, _, _, _)
traverse(tree, spelling, i, skip, rows) ==
    IF i > Len(tree) THEN rows
    ELSE IF tree[i].depth > skip THEN traverse(tree, spelling, i + 1, skip, rows)
    ELSE LET v == visitor(tree[i], spelling, rows)
         IN  traverse(tree, spelling, i + 1,
                      IF v.visit = "RECURSE" THEN Len(tree) + 1 ELSE tree[i].depth,
                      v.rows)

\* the rows of the file are deleted before the tree is looked at
DeleteFirstMutant(tunit, filename, store) ==
    LET cleared == [store EXCEPT !.symbol = DeleteWhere(@, filename)]
    IN  IF tunit # NoTree
        THEN [cleared EXCEPT !.symbol = traverse(tunit, filename, 1, Len(tunit) + 1,
                                                 cleared.symbol)]
        ELSE cleared

\* index_single_file(parser, ..., db) given what the parser returned: the content
\* of the store behind db afterwards; without a tree nothing is written
index_single_file(tunit, filename, store) ==
    IF tunit # NoTree
    THEN [store EXCEPT !.symbol = traverse(tunit, filename, 1, Len(tunit) + 1, store.symbol)]
    ELSE store

-----------------------------------------------------------------------------
(* Slicing the file list *)

\* itertools.izip_longest(*[iter(iterable)]*n, fillvalue=padvalue)
slice_it(iterable, n) ==
    IF n = 0 THEN <<>>
    ELSE [k \in 1..((Len(iterable) + n - 1) \div n) |->
            [j \in 1..n |-> IF (k - 1) * n + j <= Len(iterable)
                            THEN iterable[(k - 1) * n + j]
                            ELSE None]]

\* len(cpp_file_list)/self.cpu_count, Python 2 integer division
how_many_chunks(cpp_file_list) == Len(cpp_file_list) \div cpu_count

\* item for item in cpp_file_list_chunk if item
chunk_with_no_none_items(cpp_file_list_chunk) ==
    SelectSeq(cpp_file_list_chunk, LAMBDA item : item # None)

-----------------------------------------------------------------------------
(* Files and connections *)

\* os.path.join(self.proj_root_directory, self.indexer_db_name)
MasterPath(root) == <<root, "indexer.db">>

\* one temp store name for every worker
FixedNameMutant(dir) == <<dir, "tmp", 1>>

\* tempfile.mkstemp(suffix='.indexer.db', dir=...): a path no file has yet
mkstemp(dir) ==
    <<dir, "tmp", CHOOSE n \in 1..(Cardinality(DOMAIN fs) + 1) :
                      /\ <<dir, "tmp", n>> \notin DOMAIN fs
                      /\ \A m \in 1..(n - 1) : <<dir, "tmp", m>> \in DOMAIN fs>>

\* the files after sqlite3.connect(path), which creates a missing file
connect(path) == IF path \in DOMAIN fs THEN fs ELSE (path :> EmptyDb) @@ fs

\* what a fresh connection to the file sees
View(path, content) ==
    [path |-> path, symbol_type |-> content.symbol_type, symbol |-> content.symbol]

\* the file after commit() on a connection that sees view
Committed(content, view) ==
    [content EXCEPT !.symbol_type = view.symbol_type, !.symbol = view.symbol]

\* the two CREATE TABLE IF NOT EXISTS statements
CreateTables(content) ==
    [content EXCEPT !.symbol_type_table = TRUE, !.symbol_table = TRUE]

\* the existence test left out
NeverIndexedMutant(root) == FALSE

\* indexed when the master store holds rows, not when its file exists
HasRowsMutant(root) ==
    /\ MasterPath(root) \in DOMAIN fs
    /\ fs[MasterPath(root)].symbol # <<>>

\* directory_already_indexed: os.path.exists of the master store
directory_already_indexed(root) == MasterPath(root) \in DOMAIN fs

-----------------------------------------------------------------------------
(* Worker processes: clang_index.py running index_file_list *)

\* the process of a worker has ended
Terminated(p) == p.at \in {"exited", "crashed"}

Running(p) == ~Terminated(p)

\* a poll in place of the wait
ReturnsAtOnceMutant(p) == TRUE

\* p.wait() returns
wait_returns(p) == Terminated(p)

Worker(cmd_filename_list, cmd_output_db_filename) ==
    [at |-> "start", filename_list |-> cmd_filename_list,
     output_db_filename |-> cmd_output_db_filename, pos |-> 1, has_tunit |-> FALSE]

\* index_file_list up to the loop: connect, create the relations, insert the types
WorkerInit(i) ==
    /\ i \in DOMAIN process_list
    /\ process_list[i].at = "start"
    /\ LET out == process_list[i].output_db_filename
       IN  fs' = [connect(out) EXCEPT ![out] = CreateTables(@)]
    /\ process_list' = [process_list EXCEPT ![i].at = "index"]
    /\ UNCHANGED <<cpu_count, proj_root_directory, tree_files, fds, db, pc, chunks,
                   tmp_db_list, idx, raised, callbacks, requests, request, payload,
                   storeVars>>

\* one turn of the loop of index_file_list; the commit of index_single_file
\* also makes the inserted symbol types durable
WorkerIndexFile(i) ==
    /\ i \in DOMAIN process_list
    /\ process_list[i].at = "index"
    /\ process_list[i].pos <= Len(process_list[i].filename_list)
    /\ LET out == process_list[i].output_db_filename
           filename == process_list[i].filename_list[process_list[i].pos]
       IN  \E tunit \in ParseResults(filename) :
             /\ fs' = [fs EXCEPT ![out] =
                         IF tunit # NoTree
                         THEN [index_single_file(tunit, filename, @)
                                 EXCEPT !.symbol_type = InsertTypes(<<>>).rows]
                         ELSE @]
             /\ process_list' = [process_list EXCEPT ![i].pos = @ + 1,
                                                     ![i].has_tunit = tunit # NoTree]
    /\ UNCHANGED <<cpu_count, proj_root_directory, tree_files, fds, db, pc, chunks,
                   tmp_db_list, idx, raised, callbacks, requests, request, payload,
                   storeVars>>

\* db.close() and the end of the process
WorkerExit(i) ==
    /\ i \in DOMAIN process_list
    /\ process_list[i].at = "index"
    /\ process_list[i].pos > Len(process_list[i].filename_list)
    /\ process_list' = [process_list EXCEPT ![i].at = "exited"]
    /\ UNCHANGED <<cpu_count, proj_root_directory, tree_files, fs, fds, db, pc, chunks,
                   tmp_db_list, idx, raised, callbacks, requests, request, payload,
                   storeVars>>

\* the process dies; what it committed stays in its store
WorkerCrash(i) ==
    /\ i \in DOMAIN process_list
    /\ Running(process_list[i])
    /\ process_list' = [process_list EXCEPT ![i].at = "crashed"]
    /\ UNCHANGED <<cpu_count, proj_root_directory, tree_files, fs, fds, db, pc, chunks,
                   tmp_db_list, idx, raised, callbacks, requests, request, payload,
                   storeVars>>

-----------------------------------------------------------------------------
(* ClangIndexer.__run_on_directory *)

\* for row in query_result: self.db.execute('INSERT INTO symbol ...'), which
\* ends at the first insert that raises
RECURSIVE MergeRows(_, _)
MergeRows(rows, query_result) ==
    IF query_result = <<>> THEN [rows |-> rows, err |-> "none"]
    ELSE LET r == Insert(rows, Head(query_result))
         IN  IF r.err # "none" THEN r ELSE MergeRows(r.rows, Tail(query_result))

\* conn.execute('SELECT * FROM symbol') on a temp store and the insert loop
merge_one(rows, content) ==
    IF ~content.symbol_table
    THEN [rows |-> rows, err |-> "OperationalError"]
    ELSE MergeRows(rows, content.symbol)

\* a request as the dispatcher gets it: the opcode, the file it names, the file
\* that holds its contents, and what the parser will answer for it
Request(id, original_filename, contents_filename, tunit, cursor) ==
    [op |-> id, original_filename |-> original_filename,
     contents_filename |-> contents_filename, tunit |-> tunit, cursor |-> cursor]

\* before the first request
NoRequest == Request(-1, None, None, NoTree, None)

\* a handler that ends without the callback
NoCallbackMutant(invoked, id) == invoked

\* if self.callback: self.callback(id, args)
callback(invoked, id) == Append(invoked, id)

\* the request up to the launch loop; with the master store present only the callback
RunOnDirectory ==
    /\ pc = "idle"
    /\ requests < MaxRequests
    /\ Dispatch(IndexDirectory) = "__run_on_directory"
    /\ requests' = requests + 1
    /\ request' = Request(IndexDirectory, None, None, NoTree, None)
    /\ proj_root_directory' = Root
    /\ LET path == MasterPath(Root)
           opened == connect(path)
           types == InsertTypes(opened[path].symbol_type)
       IN  IF directory_already_indexed(Root)
           THEN /\ db' = View(path, opened[path])
                /\ fs' = opened
                /\ callbacks' = callback(<<>>, IndexDirectory)
                /\ payload' = <<Root>>
                /\ raised' = "none"
                /\ UNCHANGED <<pc, chunks, process_list, tmp_db_list, idx>>
           ELSE /\ fs' = [opened EXCEPT ![path] = CreateTables(@)]
                /\ callbacks' = <<>>
                /\ payload' = <<>>
                /\ IF types.err # "none"
                   THEN /\ db' = View(path, opened[path])
                        /\ raised' = types.err
                        /\ UNCHANGED <<pc, chunks, process_list, tmp_db_list, idx>>
                   ELSE /\ db' = [View(path, opened[path]) EXCEPT !.symbol_type = types.rows]
                        /\ chunks' = slice_it(tree_files, how_many_chunks(tree_files))
                        /\ process_list' = <<>>
                        /\ tmp_db_list' = <<>>
                        /\ pc' = "launch"
                        /\ raised' = "none"
                        /\ UNCHANGED idx
    /\ UNCHANGED <<cpu_count, tree_files, fds, storeVars>>

\* one turn of the launch loop: an empty temp store and a worker process for
\* the next chunk; after the last chunk the wait loop begins
Launch ==
    /\ pc = "launch"
    /\ IF chunks # <<>>
       THEN LET tmp_db == mkstemp(proj_root_directory)
            IN  /\ fs' = (tmp_db :> EmptyDb) @@ fs
                /\ fds' = fds \cup {tmp_db}
                /\ process_list' = Append(process_list,
                       Worker(chunk_with_no_none_items(Head(chunks)), tmp_db))
                /\ tmp_db_list' = Append(tmp_db_list, tmp_db)
                /\ chunks' = Tail(chunks)
                /\ UNCHANGED <<pc, idx>>
       ELSE /\ pc' = "wait"
            /\ idx' = 1
            /\ UNCHANGED <<fs, fds, process_list, tmp_db_list, chunks>>
    /\ UNCHANGED <<cpu_count, proj_root_directory, tree_files, db, raised, callbacks,
                   requests, request, payload, storeVars>>

\* one turn of the wait loop: p.wait() on the next process; then the merge loop begins
Wait ==
    /\ pc = "wait"
    /\ IF idx <= Len(process_list)
       THEN /\ wait_returns(process_list[idx])
            /\ idx' = idx + 1
            /\ pc' = pc
       ELSE /\ pc' = "merge"
            /\ idx' = 1
    /\ UNCHANGED <<cpu_count, proj_root_directory, tree_files, fs, fds, db, chunks,
                   process_list, tmp_db_list, raised, callbacks, requests, request,
                   payload, storeVars>>

\* one turn of the merge loop: the rows of the next temp store go into the
\* master store, which is committed, and the temp store is closed and removed;
\* an exception ends the request. After the last store the callback is invoked.
Merge ==
    /\ pc = "merge"
    /\ IF idx <= Len(tmp_db_list)
       THEN LET tmp_db == tmp_db_list[idx]
                opened == connect(tmp_db)
                merged == merge_one(db.symbol, opened[tmp_db])
                view == [db EXCEPT !.symbol = merged.rows]
            IN  IF merged.err # "none"
                THEN /\ raised' = merged.err
                     /\ pc' = "idle"
                     /\ db' = view
                     /\ fs' = opened
                     /\ UNCHANGED <<fds, idx, callbacks, payload>>
                ELSE /\ db' = view
                     /\ fs' = [f \in DOMAIN opened \ {tmp_db} |->
                                 IF f = db.path THEN Committed(opened[f], view)
                                 ELSE opened[f]]
                     /\ fds' = fds \ {tmp_db}
                     /\ idx' = idx + 1
                     /\ UNCHANGED <<pc, raised, callbacks, payload>>
       ELSE /\ callbacks' = callback(callbacks, IndexDirectory)
            /\ payload' = <<Root>>
            /\ pc' = "idle"
            /\ UNCHANGED <<fs, fds, db, idx, raised>>
    /\ UNCHANGED <<cpu_count, proj_root_directory, tree_files, chunks, process_list,
                   tmp_db_list, requests, request, storeVars>>

-----------------------------------------------------------------------------
(* The other handlers of ClangIndexer *)

\* the files that are open in the editor, which requests name
OpenFiles == {1}

\* the temporary file that holds the unsaved contents of file f
TempCopy(f) == 0 - f

\* what belongs to a pass of __run_on_directory
passVars == <<cpu_count, tree_files, fds, pc, chunks, process_list, tmp_db_list, idx>>

\* __call__: the request is handed to the handler of its opcode; a handler
\* runs to its end before the next request is taken
Receive(id, handler, original_filename, contents_filename, tunit, cursor) ==
    /\ pc = "idle"
    /\ requests < MaxRequests
    /\ Dispatch(id) = handler
    /\ requests' = requests + 1
    /\ request' = Request(id, original_filename, contents_filename, tunit, cursor)

\* ClangIndexer.__unknown_op: the error is logged
UnknownOp(id) ==
    /\ Receive(id, "__unknown_op", None, None, NoTree, None)
    /\ raised' = "none"
    /\ callbacks' = <<>>
    /\ payload' = <<>>
    /\ UNCHANGED <<proj_root_directory, fs, db, passVars, storeVars>>

\* a project root other than the one index-directory is asked for
OtherRoot == "other"

\* the project roots an index-one-file request may name
Roots == {Root, OtherRoot}

\* the master store of the root the request names
ArgumentRootMutant(proj_root) == MasterPath(proj_root)

\* os.path.join(self.proj_root_directory, self.indexer_db_name) in
\* __run_on_single_file: the root the indexer remembers, not that of the request
single_file_db_path(proj_root) == MasterPath(proj_root_directory)

\* ClangIndexer.__run_on_single_file: a connection to the master store of the
\* root index-directory left, index_single_file on it when the contents are
\* those of the file itself, and the callback
RunOnSingleFile(id, proj_root, original_filename, contents_filename, tunit) ==
    /\ Receive(id, "__run_on_single_file", original_filename, contents_filename,
               tunit, None)
    /\ IF proj_root_directory = NoRoot
       THEN /\ raised' = "AttributeError"
            /\ callbacks' = <<>>
            /\ payload' = <<>>
            /\ UNCHANGED <<fs, db>>
       ELSE LET path == single_file_db_path(proj_root)
                opened == connect(path)
                view == View(path, opened[path])
                called == contents_filename = original_filename
            IN  IF called /\ tunit # NoTree /\ ~opened[path].symbol_table
                THEN /\ raised' = "OperationalError"
                     /\ callbacks' = <<>>
                     /\ payload' = <<>>
                     /\ fs' = opened
                     /\ db' = view
                ELSE /\ db' = IF called
                              THEN index_single_file(tunit, original_filename, view)
                              ELSE view
                     /\ fs' = IF called /\ tunit # NoTree
                              THEN [opened EXCEPT ![path] = Committed(@, db')]
                              ELSE opened
                     /\ raised' = "none"
                     /\ callbacks' = callback(<<>>, id)
                     /\ payload' = <<proj_root, contents_filename, original_filename>>
    /\ UNCHANGED <<proj_root_directory, passVars, storeVars>>

\* ClangIndexer.__drop_single_file: the callback
DropSingleFile(id, filename) ==
    /\ Receive(id, "__drop_single_file", filename, filename, NoTree, None)
    /\ raised' = "none"
    /\ callbacks' = callback(<<>>, id)
    /\ payload' = <<filename>>
    /\ UNCHANGED <<proj_root_directory, fs, db, passVars, storeVars>>

\* ClangIndexer.__drop_all: the callback
DropAll(id) ==
    /\ Receive(id, "__drop_all", None, None, NoTree, None)
    /\ raised' = "none"
    /\ callbacks' = callback(<<>>, id)
    /\ payload' = <<>>
    /\ UNCHANGED <<proj_root_directory, fs, db, passVars, storeVars>>

\* cursor.location of the node the parser resolved, None (<<>>) without one
Location(tunit, cursor) ==
    IF tunit # NoTree /\ cursor # None
    THEN <<tunit[cursor].line, tunit[cursor].column>>
    ELSE <<>>

\* ClangIndexer.__go_to_definition: the file is parsed, the definition of what is
\* at the position is resolved and its location handed to the callback
GoToDefinition(id, filename, tunit, cursor) ==
    /\ Receive(id, "__go_to_definition", filename, filename, tunit, cursor)
    /\ raised' = "none"
    /\ callbacks' = callback(<<>>, id)
    /\ payload' = Location(tunit, cursor)
    /\ UNCHANGED <<proj_root_directory, fs, db, passVars, storeVars>>

\* the statement of find-all-references run as a DELETE
DeleteByUsrMutant(rows, usr) ==
    [rows |-> SelectSeq(rows, LAMBDA r : r[2] # usr),
     query_result |-> SelectSeq(rows, LAMBDA r : r[2] = usr)]

\* SELECT * FROM symbol WHERE usr=?: the relation after it and the rows it yields
SelectByUsr(rows, usr) ==
    [rows |-> rows, query_result |-> SelectSeq(rows, LAMBDA r : r[2] = usr)]

\* cursor.referenced.get_usr() if cursor.referenced else cursor.get_usr()
UsrOf(ast_node) ==
    IF ast_node.referenced # NoCursor THEN ast_node.referenced ELSE ast_node.usr

\* the four branches of __find_all_references that run the query
Queried(kind) ==
    \/ kind \in {"Function", "Method"}
    \/ kind \in {"Class", "Struct", "Enum", "EnumValue", "Union", "Typedef"}
    \/ kind \in {"LocalVariable", "FunctionParameter", "Field"}
    \/ kind \in {"MacroDefinition", "MacroInstantiation"}

\* references.append((row[0], row[1], row[2], row[3])) for every row
References(query_result) ==
    [i \in DOMAIN query_result |->
        <<query_result[i][1], query_result[i][2], query_result[i][3], query_result[i][4]>>]

\* ClangIndexer.__find_all_references: the file is parsed, the cursor at the
\* position resolved and, for a kind of the four branches, the rows with its
\* usr are read through self.db, which is None before the first index request
FindAllReferences(id, filename, tunit, cursor) ==
    /\ Receive(id, "__find_all_references", filename, filename, tunit, cursor)
    /\ LET queried == /\ tunit # NoTree
                      /\ cursor # None
                      /\ Queried(tunit[cursor].kind)
           selected == SelectByUsr(db.symbol, UsrOf(tunit[cursor]))
       IN  IF ~queried
           THEN /\ raised' = "none"
                /\ callbacks' = callback(<<>>, id)
                /\ payload' = <<>>
                /\ UNCHANGED db
           ELSE IF db.path = NoPath
           THEN /\ raised' = "AttributeError"
                /\ callbacks' = <<>>
                /\ payload' = <<>>
                /\ UNCHANGED db
           ELSE /\ raised' = "none"
                /\ callbacks' = callback(<<>>, id)
                /\ payload' = References(selected.query_result)
                /\ db' = [db EXCEPT !.symbol = selected.rows]
    /\ UNCHANGED <<proj_root_directory, fs, passVars, storeVars>>

-----------------------------------------------------------------------------
(* SymbolDatabase, a worker store and the merge loop between them *)

StoreFiles == {1, 2}

\* the rows a client passes to insert_single: those the trees of StoreFiles
\* yield, each under two symbol types
InsertArgs ==
    {<<f, k[1], k[2], 1, t>> : f \in StoreFiles,
                               k \in {<<"c:@F@f", 1>>, <<"c:@v", 2>>}, t \in {1, 2}}

\* what a statement on sdb raises before it touches a row
Unusable(relation_exists) ==
    IF sdb.db_connection # "open" THEN "ProgrammingError"
    ELSE IF ~relation_exists THEN "OperationalError"
    ELSE "none"

Called(op, args, err) ==
    /\ result' = [op |-> op, args |-> args, raised |-> err]
    /\ calls' = calls + 1

\* SymbolDatabase.create_data_model: a CREATE TABLE commits what is pending
create_data_model ==
    /\ calls < MaxCalls
    /\ LET types == InsertTypes(sdb.symbol_type)
       IN  IF Unusable(TRUE) # "none"
           THEN /\ Called("create_data_model", <<>>, Unusable(TRUE))
                /\ UNCHANGED sdb
           ELSE /\ Called("create_data_model", <<>>, types.err)
                /\ sdb' = [sdb EXCEPT !.symbol_type_table = TRUE, !.symbol_table = TRUE,
                                      !.symbol_type = types.rows, !.durable = sdb.symbol]
    /\ UNCHANGED <<wdb, indexerVars>>

\* SymbolDatabase.insert_single(filename, unique_id, line, column, symbol_type)
insert_single(row) ==
    /\ calls < MaxCalls
    /\ LET r == Insert(sdb.symbol, row)
       IN  IF Unusable(sdb.symbol_table) # "none"
           THEN /\ Called("insert_single", row, Unusable(sdb.symbol_table))
                /\ UNCHANGED sdb
           ELSE /\ Called("insert_single", row, r.err)
                /\ sdb' = [sdb EXCEPT !.symbol = r.rows]
    /\ UNCHANGED <<wdb, indexerVars>>

\* SymbolDatabase.delete(filename)
delete(filename) ==
    /\ calls < MaxCalls
    /\ Called("delete", <<filename>>, Unusable(sdb.symbol_table))
    /\ sdb' = IF Unusable(sdb.symbol_table) # "none" THEN sdb
              ELSE [sdb EXCEPT !.symbol = DeleteWhere(@, filename)]
    /\ UNCHANGED <<wdb, indexerVars>>

\* SymbolDatabase.delete_all
delete_all ==
    /\ calls < MaxCalls
    /\ Called("delete_all", <<>>, Unusable(sdb.symbol_table))
    /\ sdb' = IF Unusable(sdb.symbol_table) # "none" THEN sdb
              ELSE [sdb EXCEPT !.symbol = <<>>]
    /\ UNCHANGED <<wdb, indexerVars>>

\* SymbolDatabase.flush
flush ==
    /\ calls < MaxCalls
    /\ Called("flush", <<>>, Unusable(TRUE))
    /\ sdb' = IF Unusable(TRUE) # "none" THEN sdb ELSE [sdb EXCEPT !.durable = sdb.symbol]
    /\ UNCHANGED <<wdb, indexerVars>>

\* one turn of the loop of index_file_list on the worker store
IndexFile(filename) ==
    /\ calls < MaxCalls
    /\ calls' = calls + 1
    /\ \E tunit \in ParseResults(filename) :
         wdb' = index_single_file(tunit, filename, wdb)
    /\ UNCHANGED <<sdb, result, indexerVars>>

\* one turn of the merge loop of __run_on_directory, from the worker store
\* into an initialized store: the insert loop, then the commit
MergeStore ==
    /\ calls < MaxCalls
    /\ Unusable(sdb.symbol_table) = "none"
    /\ LET merged == merge_one(sdb.symbol, wdb)
       IN  /\ Called("merge", <<>>, merged.err)
           /\ sdb' = IF merged.err # "none"
                     THEN [sdb EXCEPT !.symbol = merged.rows]
                     ELSE [sdb EXCEPT !.symbol = merged.rows, !.durable = merged.rows]
    /\ UNCHANGED <<wdb, indexerVars>>

-----------------------------------------------------------------------------
(* The indexer and its workers *)

InitStore ==
    /\ sdb = [db_connection |-> "open", symbol_type_table |-> FALSE,
              symbol_table |-> FALSE, symbol_type |-> <<>>, symbol |-> <<>>,
              durable |-> <<>>]
    /\ wdb = CreateTables(EmptyDb)
    /\ result = [op |-> "__init__", args |-> <<>>, raised |-> "none"]
    /\ calls = 0

InitIndexer ==
    /\ proj_root_directory = NoRoot
    /\ fs = <<>>
    /\ fds = {}
    /\ db = [path |-> NoPath, symbol_type |-> <<>>, symbol |-> <<>>]
    /\ pc = "idle"
    /\ chunks = <<>>
    /\ process_list = <<>>
    /\ tmp_db_list = <<>>
    /\ idx = 1
    /\ raised = "none"
    /\ callbacks = <<>>
    /\ requests = 0
    /\ request = NoRequest
    /\ payload = <<>>

Init ==
    /\ cpu_count \in 1..MaxCpu
    /\ tree_files \in {[i \in 1..n |-> i] : n \in 0..MaxFiles}
    /\ InitIndexer
    /\ InitStore

Next ==
    \/ RunOnDirectory
    \/ Launch
    \/ Wait
    \/ Merge
    \/ \E id \in Opcodes : UnknownOp(id)
    \/ \E id \in Opcodes, proj_root \in Roots, f \in OpenFiles :
          \E c \in {f, TempCopy(f)}, tunit \in ParseResultsInEditor(f) :
             RunOnSingleFile(id, proj_root, f, c, tunit)
    \/ \E id \in Opcodes, f \in OpenFiles : DropSingleFile(id, f)
    \/ \E id \in Opcodes : DropAll(id)
    \/ \E id \in Opcodes, f \in OpenFiles :
          \E tunit \in ParseResults(f) : \E cursor \in Cursors(tunit) \cap {None, 1} :
             GoToDefinition(id, f, tunit, cursor)
    \/ \E id \in Opcodes, f \in OpenFiles :
          \E tunit \in ParseResults(f) : \E cursor \in Cursors(tunit) :
             FindAllReferences(id, f, tunit, cursor)
    \/ \E i \in 1..(MaxFiles + 1) : WorkerInit(i)
    \/ \E i \in 1..(MaxFiles + 1) : WorkerIndexFile(i)
    \/ \E i \in 1..(MaxFiles + 1) : WorkerExit(i)
    \/ \E i \in 1..(MaxFiles + 1) : WorkerCrash(i)

Spec == Init /\ [][Next]_vars

-----------------------------------------------------------------------------
(* A store and its client *)

InitStoreSpec ==
    /\ cpu_count = 1
    /\ tree_files = <<>>
    /\ InitIndexer
    /\ InitStore

NextStore ==
    \/ create_data_model
    \/ \E row \in InsertArgs : insert_single(row)
    \/ \E filename \in StoreFiles : delete(filename)
    \/ delete_all
    \/ flush
    \/ \E filename \in StoreFiles : IndexFile(filename)
    \/ MergeStore

SpecStore == InitStoreSpec /\ [][NextStore]_vars

-----------------------------------------------------------------------------
(* Properties of index-directory, under Spec *)

\* every chunk was handed to a worker process and the pass has not ended
Launched == pc \in {"wait", "merge"}

\* the pass of index-directory is over, by return or by exception
PassOver == pc = "idle" /\ requests >= 1

\* how often file f occurs in the chunks handed to the worker processes
Occurrences(f) ==
    Cardinality({ij \in (DOMAIN process_list) \X (DOMAIN tree_files) :
                    /\ ij[2] \in DOMAIN process_list[ij[1]].filename_list
                    /\ process_list[ij[1]].filename_list[ij[2]] = f})

\* C1: the chunks handed to the worker processes partition the file list:
\* every discovered file is in exactly one chunk, for every file count and
\* every CPU count, file lists shorter than the CPU count included.
C1_ChunksPartitionFiles ==
    Launched => \A f \in Range(tree_files) : Occurrences(f) = 1

CeilOfFilesPerCpu == (Len(tree_files) + cpu_count - 1) \div cpu_count

\* C2: the chunks have size ceil(fileCount / cpuCount), but for the last,
\* which may be shorter, and hold the files in discovery order.
C2_ChunksOfCeilSize ==
    Launched =>
        \A i \in DOMAIN process_list :
            LET chunk == process_list[i].filename_list
            IN  /\ i < Len(process_list) => Len(chunk) = CeilOfFilesPerCpu
                /\ Len(chunk) \in 1..CeilOfFilesPerCpu
                /\ \A j \in DOMAIN chunk :
                       /\ (i - 1) * CeilOfFilesPerCpu + j \in DOMAIN tree_files
                       /\ chunk[j] = tree_files[(i - 1) * CeilOfFilesPerCpu + j]

\* C3: an index-directory request that finds the master store file launches
\* no worker process, creates no temp store and leaves every database file,
\* the rows of the master store with it, as it was.
C3_NoOpWhenIndexed ==
    [][(/\ pc = "idle"
        /\ MasterPath(Root) \in DOMAIN fs
        /\ requests' # requests
        /\ request'.op = IndexDirectory)
          => /\ pc' = "idle"
             /\ process_list' = process_list
             /\ tmp_db_list' = tmp_db_list
             /\ fs' = fs]_vars

\* C3 happens: a second request was served on a master store that holds rows
C3_Witness ==
    /\ requests = 2
    /\ request.op = IndexDirectory
    /\ pc = "idle"
    /\ MasterPath(Root) \in DOMAIN fs
    /\ fs[MasterPath(Root)].symbol # <<>>
    /\ callbacks = <<IndexDirectory>>

\* C4: while a worker process of the pass is running the merge loop has not
\* begun and the master store, file and connection, holds no symbol row.
C4_MergeAfterWorkers ==
    (\E i \in DOMAIN process_list : Running(process_list[i]))
        => /\ pc # "merge"
           /\ db.symbol = <<>>
           /\ \A f \in DOMAIN fs : f = MasterPath(Root) => fs[f].symbol = <<>>

\* C4 happens: two workers ran, the first store is merged, the second is next
C4_Witness ==
    /\ pc = "merge"
    /\ idx = 2
    /\ Len(process_list) >= 2
    /\ db.symbol # <<>>
    /\ \A i \in DOMAIN process_list : process_list[i].at = "exited"

\* the processes with a connection to the file that write to it
Writers(path) ==
    {i \in DOMAIN process_list :
        Running(process_list[i]) /\ process_list[i].output_db_filename = path}
    \cup (IF db.path = path THEN {0} ELSE {})

\* the output stores of the workers differ from one another and from the
\* master store, and no file has two writers
C5_PrivateStores ==
    /\ \A i \in DOMAIN process_list :
          /\ process_list[i].output_db_filename # MasterPath(Root)
          /\ \A j \in DOMAIN process_list :
                 j # i => process_list[j].output_db_filename
                              # process_list[i].output_db_filename
    /\ \A path \in DOMAIN fs : Cardinality(Writers(path)) <= 1

\* a step of worker i, and no other file than its store changes in it
C5_WorkerWritesOwnStore ==
    \A i \in DOMAIN process_list :
        (i \in DOMAIN process_list' /\ process_list'[i] # process_list[i])
            => /\ DOMAIN fs' = DOMAIN fs
               /\ \A f \in DOMAIN fs :
                      f # process_list[i].output_db_filename => fs'[f] = fs[f]
               /\ db' = db

\* C5: every worker process writes its own temp store only, which is not the
\* store of another worker nor the master store, and no file has two writers.
C5_WorkersOwnPrivateStores == []C5_PrivateStores /\ [][C5_WorkerWritesOwnStore]_vars

\* C5 happens: two workers are filling their stores at the same time
C5_Witness ==
    \E i, j \in DOMAIN process_list :
        /\ i # j
        /\ process_list[i].at = "index" /\ process_list[i].pos = 2
        /\ process_list[j].at = "index" /\ process_list[j].pos = 2
        /\ fs[process_list[i].output_db_filename].symbol # <<>>
        /\ fs[process_list[j].output_db_filename].symbol # <<>>

\* the rows of worker i are in the master store: its store is merged and
\* removed, or every row of it is in the master store
MergedInto(i) ==
    LET out == process_list[i].output_db_filename
    IN  \/ out \notin DOMAIN fs
        \/ Range(fs[out].symbol) \subseteq Range(fs[MasterPath(Root)].symbol)

\* C6: when a worker process crashes or leaves no output, the pass still
\* completes: it ends without an exception and with the rows of every other
\* worker in the master store.
C6_CrashedWorkerIsSkipped ==
    (PassOver /\ \E i \in DOMAIN process_list : process_list[i].at = "crashed")
        => /\ raised = "none"
           /\ \A i \in DOMAIN process_list :
                  process_list[i].at = "exited" => MergedInto(i)

\* C7: when the pass is over, however it ended, none of its temp stores is
\* left and none of their descriptors is open.
C7_TempStoresDeleted ==
    PassOver => /\ \A i \in DOMAIN tmp_db_list : tmp_db_list[i] \notin DOMAIN fs
                /\ fds = {}

-----------------------------------------------------------------------------
(* Properties of the stores, under SpecStore *)

\* the rows of the relation with the primary key of row
WithKeyOf(rows, row) == {i \in DOMAIN rows : PrimaryKey(rows[i]) = PrimaryKey(row)}

\* C8: merging a worker store whose rows are all in the target store ends
\* without an error and leaves the set of rows of the target unchanged.
C8_MergeOfPresentRows ==
    [][(calls' # calls /\ result'.op = "merge"
            /\ Range(wdb.symbol) \subseteq Range(sdb.symbol))
          => /\ result'.raised = "none"
             /\ Range(sdb'.symbol) = Range(sdb.symbol)]_vars

UniqueKeys(rows) ==
    \A i, j \in DOMAIN rows : PrimaryKey(rows[i]) = PrimaryKey(rows[j]) => i = j

\* C9: no store, as its connection sees it or as committed, holds two rows
\* with one (filename, usr, line, column), and after insert_single, the first
\* or a repeated one, the store holds exactly one row with the tuple inserted.
C9_OneRowPerTuple ==
    /\ UniqueKeys(sdb.symbol)
    /\ UniqueKeys(sdb.durable)
    /\ UniqueKeys(wdb.symbol)
    /\ (result.op = "insert_single" /\ result.raised \in {"none", "IntegrityError"})
          => Cardinality(WithKeyOf(sdb.symbol, result.args)) = 1

\* C9 happens: the tuple a worker store and the store both hold, the latter by
\* a merge, was inserted once more
C9_Witness ==
    /\ result.op = "insert_single"
    /\ result.raised = "IntegrityError"
    /\ Len(sdb.symbol) >= 2
    /\ WithKeyOf(wdb.symbol, result.args) # {}

\* C10: insert_single with a tuple that is stored returns without raising
\* and leaves the store as it was.
C10_DuplicateInsertIsSilent ==
    [][(calls' # calls /\ result'.op = "insert_single"
            /\ WithKeyOf(sdb.symbol, result'.args) # {})
          => /\ result'.raised = "none"
             /\ sdb' = sdb]_vars

\* the store is initialized: both relations exist and symbol_type holds the
\* four rows of symbol_types
Initialized(store) ==
    /\ store.symbol_type_table
    /\ store.symbol_table
    /\ store.symbol_type = symbol_types

\* C11: create_data_model called on a store that is initialized returns
\* without an error, leaves symbol_type with exactly its four rows and the
\* rows of symbol as they were.
C11_InitializeIsIdempotent ==
    [][(calls' # calls /\ result'.op = "create_data_model"
            /\ sdb.db_connection = "open" /\ Initialized(sdb))
          => /\ result'.raised = "none"
             /\ sdb'.symbol_type = symbol_types
             /\ sdb'.symbol = sdb.symbol]_vars

-----------------------------------------------------------------------------
(* Properties of index_single_file and of the other handlers, under Spec *)

\* the request of this step reaches index_single_file on the master store
IndexesOneFile ==
    /\ requests' # requests
    /\ Dispatch(request'.op) = "__run_on_single_file"
    /\ request'.contents_filename = request'.original_filename
    /\ proj_root_directory # NoRoot

\* worker i looks at the next file of its chunk in this step
WorkerParses(i) ==
    /\ i \in DOMAIN process_list'
    /\ process_list'[i].pos = process_list[i].pos + 1

\* C12: when the parser yields no tree for a file, index_single_file adds,
\* removes and commits no row and does not raise: no database file changes, the
\* connection sees the committed rows, the request ends with its callback, and
\* a worker process goes on with the next file of its chunk.
C12_NoTreeNoChange ==
    [][/\ \A i \in DOMAIN process_list :
             (WorkerParses(i) /\ ~process_list'[i].has_tunit)
                 => /\ fs' = fs
                    /\ process_list'[i].at = "index"
       /\ (IndexesOneFile /\ request'.tunit = NoTree)
             => /\ fs' = fs
                /\ db'.symbol = fs[MasterPath(proj_root_directory)].symbol
                /\ raised' = "none"]_vars

\* C12 happens: a worker got no tree for the first file of its chunk and has
\* stored the rows of the second
C12_Witness ==
    \E i \in DOMAIN process_list :
        LET p == process_list[i]
        IN  /\ p.pos = 3
            /\ p.has_tunit
            /\ fs[p.output_db_filename].symbol # <<>>
            /\ \A r \in Range(fs[p.output_db_filename].symbol) : r[1] = p.filename_list[2]

\* the nodes of the tree above node i
Ancestors(tree, i) ==
    {j \in 1..(i - 1) :
        /\ tree[j].depth < tree[i].depth
        /\ \A k \in (j + 1)..(i - 1) : tree[k].depth > tree[j].depth}

\* node i of the tree of file f is out of scope: it lies in another file, or
\* below a node that does
OutOfScope(tree, f, i) ==
    \/ tree[i].file # f
    \/ \E j \in Ancestors(tree, i) : tree[j].file # f

\* every relation of symbol rows there is: the committed ones and what the
\* connection of the indexer sees
Relations == {fs[path].symbol : path \in DOMAIN fs} \cup {db.symbol}

\* C13: no store holds, under the filename of a file A, a row for a node of
\* A's translation unit that lies in another file (a symbol an #include
\* brought in) or below such a node, which the traversal never descends into.
C13_NoRowFromInclude ==
    \A rows \in Relations : \A r \in Range(rows) :
        \A tree \in ParseResultsInEditor(r[1]) \ {NoTree} :
            \A i \in DOMAIN tree :
                OutOfScope(tree, r[1], i)
                    => <<r[2], r[3], r[4]>>
                           # <<UsrOf(tree[i]), tree[i].line, tree[i].column>>

\* C13 happens: the master store holds the rows of file 1, whose translation
\* unit has the included struct between its local variable and its statement
C13_Witness ==
    /\ pc = "idle"
    /\ MasterPath(Root) \in DOMAIN fs
    /\ \E r \in Range(fs[MasterPath(Root)].symbol) :
           r[1] = 1 /\ r[2] = UsrOf(Tree(1)[3]) /\ r[3] = Tree(1)[3].line

\* the category id the symbol_type relation gives the kinds: function 1,
\* variable 2, user-defined type 3, macro 4, None for every other kind
CategoryOf(kind) ==
    CASE kind \in {"Function", "Method"} -> 1
      [] kind \in {"LocalVariable", "FunctionParameter", "Field"} -> 2
      [] kind \in {"Class", "Struct", "Enum", "EnumValue", "Union", "Typedef"} -> 3
      [] kind \in {"MacroDefinition", "MacroInstantiation"} -> 4
      [] OTHER -> None

\* the rows of the relation for node i of the tree of file f
RowsOfNode(rows, tree, f, i) ==
    {k \in DOMAIN rows :
        PrimaryKey(rows[k]) = <<f, UsrOf(tree[i]), tree[i].line, tree[i].column>>}

\* every node of the tree the traversal visits has one row, of its category,
\* when its kind has a category, and none when it has not
Categorized(rows, tree, f) ==
    \A i \in DOMAIN tree :
        ~OutOfScope(tree, f, i)
            => IF CategoryOf(tree[i].kind) # None
               THEN /\ Cardinality(RowsOfNode(rows, tree, f, i)) = 1
                    /\ \A k \in RowsOfNode(rows, tree, f, i) :
                           rows[k][5] = CategoryOf(tree[i].kind)
               ELSE RowsOfNode(rows, tree, f, i) = {}

\* C14: after index_single_file got a tree, the store holds for every in-scope
\* node it visited exactly one row with the category id of its kind (function
\* and method 1; local variable, parameter and field 2; class, struct, enum,
\* enum value, union and typedef 3; macro definition and instantiation 4), and
\* no row for a node of any other kind.
C14_OneRowOfItsCategory ==
    [][/\ \A i \in DOMAIN process_list :
             (WorkerParses(i) /\ process_list'[i].has_tunit)
                 => LET f == process_list[i].filename_list[process_list[i].pos]
                    IN  \A tree \in ParseResults(f) \ {NoTree} :
                            Categorized(fs'[process_list[i].output_db_filename].symbol,
                                        tree, f)
       /\ (IndexesOneFile /\ request'.tunit # NoTree)
             => /\ Categorized(db'.symbol, request'.tunit, request'.original_filename)
                /\ Categorized(fs'[MasterPath(proj_root_directory)].symbol,
                               request'.tunit, request'.original_filename)]_vars

\* C14 happens: the edited file 1 was indexed into a master store that now
\* holds rows of all four categories
C14_Witness ==
    /\ Dispatch(request.op) = "__run_on_single_file"
    /\ request.tunit = EditedTree(1)
    /\ callbacks = <<request.op>>
    /\ \A type \in 1..4 : \E r \in Range(db.symbol) : r[5] = type

\* the request of this step is a find-all-references
FindsReferences ==
    /\ requests' # requests
    /\ Dispatch(request'.op) = "__find_all_references"

\* C15: find-all-references only reads: every database file, the rows of the
\* master store with it, and what the connection of the indexer sees are
\* after the request what they were before it.
C15_FindReferencesReadsOnly ==
    [][FindsReferences => fs' = fs /\ db' = db]_vars

\* C15 happens: references were found in a master store that holds rows
C15_Witness ==
    /\ Dispatch(request.op) = "__find_all_references"
    /\ callbacks = <<request.op>>
    /\ payload # <<>>
    /\ MasterPath(Root) \in DOMAIN fs
    /\ fs[MasterPath(Root)].symbol # <<>>

\* the committed rows of the master store, none while there is no master store
MasterRows ==
    IF proj_root_directory # NoRoot /\ MasterPath(proj_root_directory) \in DOMAIN fs
    THEN fs[MasterPath(proj_root_directory)].symbol
    ELSE <<>>

\* the identifier of the declaration the node refers to if it is a reference,
\* its own identifier if it is not
CanonicalIdentifier(ast_node) ==
    IF ast_node.referenced = NoCursor THEN ast_node.usr ELSE ast_node.referenced

\* (filename, usr, line, column) of every row with the identifier, in the
\* order of the store
Lookup(rows, usr) ==
    LET matching == SelectSeq(rows, LAMBDA r : r[2] = usr)
    IN  [k \in DOMAIN matching |->
            <<matching[k][1], matching[k][2], matching[k][3], matching[k][4]>>]

\* what find-all-references is to return for a request
ExpectedReferences(req, rows) ==
    IF /\ req.tunit # NoTree
       /\ req.cursor # None
       /\ CategoryOf(req.tunit[req.cursor].kind) # None
    THEN Lookup(rows, CanonicalIdentifier(req.tunit[req.cursor]))
    ELSE <<>>

\* C16: find-all-references hands to the callback exactly the (filename, usr,
\* line, column) of every row of the master store whose usr is the canonical
\* identifier of the node under the position, whatever file the row is of,
\* when the kind of the node is of the four categories, and the empty
\* sequence when no node is under the position or its kind has no category.
C16_ReferencesAreTheRowsOfTheUsr ==
    [][FindsReferences
          => /\ callbacks' = <<request'.op>>
             /\ payload' = ExpectedReferences(request', MasterRows)]_vars

\* the six opcodes of the protocol: index-one-file, index-directory,
\* drop-one-file, drop-all, go-to-definition, find-all-references
Recognized == {0, 1, 2, 3, 16, 17}

\* C17: a request with an opcode that is not one of the six leaves every
\* database file, the connection, the remembered project root and the pass
\* state as they were, does not invoke the callback and ends without an
\* exception, the dispatcher being free for the next request.
C17_UnknownOpcodeIsIgnored ==
    [][(requests' # requests /\ request'.op \notin Recognized)
          => /\ fs' = fs
             /\ db' = db
             /\ proj_root_directory' = proj_root_directory
             /\ passVars' = passVars
             /\ callbacks' = <<>>
             /\ payload' = <<>>
             /\ raised' = "none"
             /\ pc' = "idle"]_vars

\* C17 happens: an unknown opcode came after a pass that filled the master store
C17_Witness ==
    /\ requests = 2
    /\ request.op \notin Recognized
    /\ callbacks = <<>>
    /\ MasterRows # <<>>

\* the last request has a recognized opcode and has completed
Completed ==
    /\ requests >= 1
    /\ request.op \in Recognized
    /\ pc = "idle"
    /\ raised = "none"

\* the callback was invoked once, with the opcode of the request, when the
\* request has completed and not at all while it is being served
C18_OnceOnCompletion ==
    /\ Completed => callbacks = <<request.op>>
    /\ pc # "idle" => callbacks = <<>>

\* once the callback of a request was invoked, no step of that request
\* changes a database file or what the connection sees
C18_NoEffectAfterCallback ==
    (callbacks # <<>> /\ requests' = requests) => (fs' = fs /\ db' = db)

\* C18: for every request with a recognized opcode that completes the callback
\* is invoked exactly once, with the opcode of the request, and after the
\* store effects of the request.
C18_CallbackOnceAfterEffects ==
    []C18_OnceOnCompletion /\ [][C18_NoEffectAfterCallback]_vars

\* C18 happens: a first index-directory request merged two temp stores and
\* then invoked the callback
C18_Witness ==
    /\ Completed
    /\ requests = 1
    /\ request.op = IndexDirectory
    /\ callbacks = <<IndexDirectory>>
    /\ Len(tmp_db_list) >= 2
    /\ \A i \in DOMAIN tmp_db_list : tmp_db_list[i] \notin DOMAIN fs
    /\ MasterRows # <<>>

\* C19: after a drop-all request on a master store that holds rows, a scan
\* of the store, committed or through the connection, yields no row.
C19_DropAllEmptiesTheStore ==
    [][(/\ requests' # requests
        /\ Dispatch(request'.op) = "__drop_all"
        /\ MasterRows # <<>>)
          => /\ MasterRows' = <<>>
             /\ db'.symbol = <<>>]_vars

\* every row of file f is the row of a node of the tree that the traversal
\* visits and whose kind has a category
NoStaleRow(rows, tree, f) ==
    \A k \in DOMAIN rows :
        rows[k][1] = f
            => \E i \in DOMAIN tree :
                   /\ ~OutOfScope(tree, f, i)
                   /\ CategoryOf(tree[i].kind) # None
                   /\ k \in RowsOfNode(rows, tree, f, i)

\* C20: after a file that has rows in the master store was indexed again, the
\* rows of the store with its filename are exactly the rows of the latest
\* parse: one for every node with a category, none left from the earlier parse.
C20_ReindexReplacesRows ==
    [][(/\ IndexesOneFile
        /\ request'.tunit # NoTree
        /\ \E r \in Range(MasterRows) : r[1] = request'.original_filename)
          => /\ Categorized(MasterRows', request'.tunit, request'.original_filename)
             /\ NoStaleRow(MasterRows', request'.tunit, request'.original_filename)]_vars

\* the temp stores that are left under the project root
TempStores == {path \in DOMAIN fs : Len(path) = 3}

\* a pass has ended before every worker store was merged: no request is
\* being served and a temp store, which a merge would have removed, is left
Aborted == pc = "idle" /\ TempStores # {}

\* the request of this step is an index-directory
IndexesDirectory ==
    /\ pc = "idle"
    /\ requests' # requests
    /\ request'.op = IndexDirectory

\* the master store file is there before the first worker of a pass is launched
C21_MasterBeforeWorkers ==
    (pc # "idle" \/ process_list # <<>>) => MasterPath(Root) \in DOMAIN fs

\* an index-directory request starts a pass when there is no master store
\* file, and after an aborted pass launches no worker, merges no temp store
\* and leaves the rows of the master store as they are
C21_DecidedByExistence ==
    IndexesDirectory
        => /\ MasterPath(Root) \notin DOMAIN fs
                => (pc' = "launch" /\ MasterPath(Root) \in DOMAIN fs')
           /\ Aborted
                => /\ process_list' = process_list
                   /\ fs'[MasterPath(Root)].symbol = fs[MasterPath(Root)].symbol
                   /\ db'.symbol = fs[MasterPath(Root)].symbol
                   /\ callbacks' = <<IndexDirectory>>

\* after an aborted pass no step starts a pass, launches a worker or touches
\* a temp store that was left
C21_StaysAborted ==
    Aborted => /\ pc' = "idle"
               /\ process_list' = process_list
               /\ TempStores' = TempStores
               /\ \A path \in TempStores : fs'[path] = fs[path]

\* C21: index-directory takes a root for indexed as soon as the master store
\* file exists, and creates that file before it launches a worker; so after a
\* pass that ended before every worker store was merged, every later
\* index-directory request launches no worker and adds no row, and the rows of
\* the stores that were left never reach the master store.
C21_AbortedPassIsNeverResumed ==
    /\ []C21_MasterBeforeWorkers
    /\ [][C21_DecidedByExistence]_vars
    /\ [][C21_StaysAborted]_vars

\* C21 happens: the merge of a pass raised, a later index-directory request
\* was served by the callback alone, and a temp store that was left holds
\* rows of a file the master store has no row of
C21_Witness ==
    /\ Aborted
    /\ requests = 2
    /\ request.op = IndexDirectory
    /\ callbacks = <<IndexDirectory>>
    /\ \E path \in TempStores : \E r \in Range(fs[path].symbol) :
           \A m \in Range(fs[MasterPath(Root)].symbol) : m[1] # r[1]

\* the request of this step is an index-one-file
OneFileRequest ==
    /\ requests' # requests
    /\ Dispatch(request'.op) = "__run_on_single_file"

\* C22: an index-one-file request opens the master store of the root the last
\* index-directory request left and no store of the root it names itself; when
\* no index-directory request came before, it ends with an exception, indexes
\* nothing and does not invoke the callback; it indexes the file when the
\* contents path is the display path and leaves the store as it is otherwise.
C22_OneFileUsesRememberedRoot ==
    [][OneFileRequest
          => IF proj_root_directory = NoRoot
             THEN /\ raised' # "none"
                  /\ callbacks' = <<>>
                  /\ fs' = fs
                  /\ db' = db
             ELSE /\ db'.path = <<proj_root_directory, "indexer.db">>
                  /\ DOMAIN fs' = DOMAIN fs
                  /\ \A path \in DOMAIN fs :
                         path # <<proj_root_directory, "indexer.db">> => fs'[path] = fs[path]
                  /\ callbacks' = <<request'.op>>
                  /\ IF request'.contents_filename = request'.original_filename
                     THEN request'.tunit # NoTree
                              => Categorized(MasterRows', request'.tunit,
                                             request'.original_filename)
                     ELSE /\ fs' = fs
                          /\ db'.symbol = MasterRows]_vars

\* C22 happens: a request that names another root has put the rows of the
\* edited file 1 into the master store of the remembered root
C22_Witness ==
    /\ Dispatch(request.op) = "__run_on_single_file"
    /\ callbacks = <<request.op>>
    /\ payload[1] = OtherRoot
    /\ proj_root_directory = Root
    /\ db.path = MasterPath(Root)
    /\ request.tunit = EditedTree(1)
    /\ \E r \in Range(MasterRows) : r[1] = 1 /\ r[2] = "c:@S@C"

=============================================================================
